---- MODULE Spec2Model ----
(***************************************************************************)
(* ManifestWorkReplicaSet controller (pkg/work/hub/controllers/            *)
(* manifestworkreplicasetcontroller): the sync entry point, the queue-key  *)
(* derivation for ManifestWork events and the reconciler pipeline.         *)
(*                                                                         *)
(* Vocabulary: ReplicaSet = ManifestWorkReplicaSet, DeliveryObject =       *)
(* ManifestWork, lifecycle guard = ManifestWorkReplicaSetFinalizer,        *)
(* correlation label = ManifestWorkReplicaSetControllerNameLabelKey.       *)
(* Strings are sequences of one-character strings so that Split and the    *)
(* key formatting are computed, not assumed.                               *)
(***************************************************************************)
EXTENDS Integers, Sequences, FiniteSets, TLC

\* ------------------------------------------------------------------ bounds
NumTargets == 2
MaxLabelLen == 4
MaxNameLen == 4

Targets == 1..NumTargets
Workers == {"w1", "w2"}
Payloads == {"p1", "p2"}
LabelChars == {"a", "b", "."}

\* ------------------------------------------------------- program constants
reconcileStop == 0
reconcileContinue == 1

NoErr == "nil"

\* ------------------------------------------------------------------ strings
\* strings.Split(s, sep): the substrings between the separators; a string
\* without separator (the empty string too) yields one element.
RECURSIVE Split(_, _)
Split(s, sep) ==
  IF \A i \in 1..Len(s) : s[i] # sep
  THEN <<s>>
  ELSE LET i == CHOOSE i \in 1..Len(s) :
                  s[i] = sep /\ \A j \in 1..(i - 1) : s[j] # sep
       IN  <<SubSeq(s, 1, i - 1)>> \o Split(SubSeq(s, i + 1, Len(s)), sep)

\* A label map restricted to the correlation label: present or not, and value.
NoLabel == [ok |-> FALSE, value |-> <<>>]
LabelOf(v) == [ok |-> TRUE, value |-> v]

\* The event filter of the ManifestWork informer: the label key is present.
filterByLabel(labels) == labels.ok

\* Variant of the queue-key function: the label value is the key, unchanged.
ownerKeyFromChild_LabelValue(labels) ==
  IF ~labels.ok
  THEN <<>>
  ELSE LET keys == Split(labels.value, ".")
       IN  IF Len(keys) # 2
           THEN <<>>
           ELSE labels.value

\* Variant of the queue-key function: fewer than two segments are refused,
\* more than two are not.
ownerKeyFromChild_AtLeastTwo(labels) ==
  IF ~labels.ok
  THEN <<>>
  ELSE LET keys == Split(labels.value, ".")
       IN  IF Len(keys) < 2
           THEN <<>>
           ELSE keys[1] \o <<"/">> \o keys[2]

\* The queue-key function of the ManifestWork informer; <<>> is "".
ownerKeyFromChild(labels) ==
  IF ~labels.ok
  THEN <<>>
  ELSE LET keys == Split(labels.value, ".")
       IN  IF Len(keys) # 2
           THEN <<>>
           ELSE keys[1] \o <<"/">> \o keys[2]

\* cache.SplitMetaNamespaceKey as sync uses it: "name", "namespace/name",
\* anything else is an error.
SplitMetaNamespaceKey(key) ==
  LET parts == Split(key, "/")
  IN  IF Len(parts) = 1
      THEN [err |-> FALSE, namespace |-> <<>>, name |-> parts[1]]
      ELSE IF Len(parts) = 2
           THEN [err |-> FALSE, namespace |-> parts[1], name |-> parts[2]]
           ELSE [err |-> TRUE, namespace |-> <<>>, name |-> <<>>]

\* ------------------------------------------------------------------ objects
Id(ns, name) == [namespace |-> ns, name |-> name]
RSIds == {Id(<<"n">>, <<"a">>), Id(<<"m">>, <<"a">>)}

\* The queue key of a ReplicaSet event: namespace/name.
ownKey(id) == id.namespace \o <<"/">> \o id.name

\* The value of the correlation label of a ReplicaSet: namespace.name.
manifestWorkReplicaSetKey(id) == id.namespace \o <<".">> \o id.name

NoRS == [exists |-> FALSE, deleting |-> FALSE, guard |-> FALSE,
         payload |-> "p1", status |-> 0]

\* Variant of the stage list: the finalize reconciler is not registered.
reconcilers_NoFinalize == <<"addFinalizer", "deploy", "status">>

\* The fixed stage order of newController.
reconcilers == <<"finalize", "addFinalizer", "deploy", "status">>

\* Variants of the selector: the queue key (namespace/name) as its value;
\* selection.NotEquals as its operator.
ListWorks_QueueKey(id, lister) ==
  {mw \in lister : mw.labels.ok /\ mw.labels.value = ownKey(id)}
ListWorks_NotEquals(id, lister) ==
  {mw \in lister : ~(mw.labels.ok /\ mw.labels.value = manifestWorkReplicaSetKey(id))}

\* listManifestWorksByManifestWorkReplicaSet: the ManifestWorks the lister
\* holds whose correlation label equals the ReplicaSet's key.
ListWorks(id, lister) ==
  {mw \in lister : mw.labels.ok /\ mw.labels.value = manifestWorkReplicaSetKey(id)}

NoDist == [ran |-> FALSE, resolved |-> FALSE, desired |-> {}, observed |-> {},
           owned |-> {}, ops |-> {}, failed |-> {}, payload |-> "p1"]
NoFin == [ran |-> FALSE, listed |-> {}, failed |-> {}, removed |-> FALSE]

\* PatchStatus was not called.
NoCompared == [new |-> 0, old |-> 0]

\* No sync call returned in the last step.
NoLast == [returned |-> FALSE, key |-> <<>>, found |-> FALSE, id |-> Id(<<>>, <<>>),
           old |-> NoRS, cur |-> NoRS, ran |-> <<>>, fin |-> NoFin, dist |-> NoDist,
           sel |-> {}, updates |-> 0, patches |-> 0, compared |-> NoCompared,
           wrote |-> FALSE, result |-> <<>>]

Idle == [pc |-> "idle", key |-> <<>>]

NoEvent == [pc |-> "none", labels |-> NoLabel, queued |-> FALSE, key |-> <<>>]

VARIABLES
  rs,          \* storage: ReplicaSet id -> object
  decisions,   \* selection result of the placement each ReplicaSet references
  works,       \* the ManifestWorks in storage
  dirty,       \* work queue: keys waiting for a pass
  processing,  \* work queue: keys a worker holds
  pass,        \* worker -> what it does: idle, about to sync a key, done with it
  life,        \* history per ReplicaSet: "new", "guarded", "confirmed"
  cfg,         \* the deployment: the ReplicaSets users manage, the clusters
  last,        \* observation: the sync call that returned in the last step
  ev           \* a ManifestWork event on its way through the informer handler

ctl == <<rs, decisions, works, dirty, processing, pass, life, cfg, last>>
vars == <<rs, decisions, works, dirty, processing, pass, life, cfg, last, ev>>

\* queue.Add: the empty key stands for "no key" and is dropped.
Enqueue(q, keys) == q \cup {k \in keys : k # <<>>}

\* The informer handlers of ManifestWork events: filter, then queue key.
WorkKeys(mws) == {ownerKeyFromChild(mw.labels) : mw \in {x \in mws : filterByLabel(x.labels)}}

\* The ManifestWorks whose events queue this key.
OwnedBy(key, mws) == {mw \in mws : filterByLabel(mw.labels) /\ ownerKeyFromChild(mw.labels) = key}

\* The identity of a ManifestWork: its cluster namespace and its name.
Identity(mw) == <<mw.target, mw.name>>

NewWork(id, t, payload) ==
  [target |-> t, name |-> id.name, labels |-> LabelOf(manifestWorkReplicaSetKey(id)),
   payload |-> payload, terminating |-> FALSE]

\* --------------------------------------------------------------------- Init
InitCtl ==
  /\ rs = [id \in RSIds |-> NoRS]
  /\ decisions = [id \in RSIds |-> {}]
  /\ works = {}
  /\ dirty = {}
  /\ processing = {}
  /\ pass = [w \in Workers |-> Idle]
  /\ life = [id \in RSIds |-> "new"]
  /\ cfg = [ids |-> {Id(<<"n">>, <<"a">>)}, targets |-> Targets]
  /\ last = NoLast

Init ==
  /\ InitCtl
  /\ ev = NoEvent

\* -------------------------------------------------------------- environment
\* A user creates a ReplicaSet; the add event queues its key.
UserCreate(id) ==
  /\ id \in cfg.ids
  /\ ~rs[id].exists
  /\ \E p \in Payloads :
       rs' = [rs EXCEPT ![id] = [NoRS EXCEPT !.exists = TRUE, !.payload = p]]
  /\ life' = [life EXCEPT ![id] = "new"]
  /\ dirty' = Enqueue(dirty, {ownKey(id)})
  /\ last' = NoLast
  /\ UNCHANGED <<decisions, works, processing, pass, cfg, ev>>

\* A user changes the manifest template of a live ReplicaSet.
UserUpdate(id) ==
  /\ rs[id].exists /\ ~rs[id].deleting
  /\ \E p \in Payloads \ {rs[id].payload} :
       rs' = [rs EXCEPT ![id].payload = p]
  /\ dirty' = Enqueue(dirty, {ownKey(id)})
  /\ last' = NoLast
  /\ UNCHANGED <<decisions, works, processing, pass, life, cfg, ev>>

\* A user deletes a ReplicaSet: with a finalizer the storage layer only sets
\* the deletion timestamp, without one the object is gone at once.
UserDelete(id) ==
  /\ rs[id].exists /\ ~rs[id].deleting
  /\ rs' = [rs EXCEPT ![id] = IF rs[id].guard
                               THEN [rs[id] EXCEPT !.deleting = TRUE]
                               ELSE NoRS]
  /\ dirty' = Enqueue(dirty, {ownKey(id)})
  /\ last' = NoLast
  /\ UNCHANGED <<decisions, works, processing, pass, life, cfg, ev>>

\* The storage layer removes a deleting ReplicaSet that has no finalizer left.
StorageRemove(id) ==
  /\ rs[id].exists /\ rs[id].deleting /\ ~rs[id].guard
  /\ rs' = [rs EXCEPT ![id] = NoRS]
  /\ dirty' = Enqueue(dirty, {ownKey(id)})
  /\ last' = NoLast
  /\ UNCHANGED <<decisions, works, processing, pass, life, cfg, ev>>

\* The selection result of the placement of a ReplicaSet changes: a cluster
\* joins it or leaves it.
DecisionChange(id) ==
  /\ id \in cfg.ids
  /\ \E t \in cfg.targets :
       decisions' = [decisions EXCEPT ![id] =
                       IF t \in @ THEN @ \ {t} ELSE @ \cup {t}]
  /\ dirty' = Enqueue(dirty, IF rs[id].exists THEN {ownKey(id)} ELSE {})
  /\ last' = NoLast
  /\ UNCHANGED <<rs, works, processing, pass, life, cfg, ev>>

\* A ManifestWork whose deletion was requested disappears from its cluster
\* namespace; the delete event queues the key its label names.
WorkFinalized(mw) ==
  /\ mw \in works /\ mw.terminating
  /\ works' = works \ {mw}
  /\ dirty' = Enqueue(dirty, WorkKeys({mw}))
  /\ last' = NoLast
  /\ UNCHANGED <<rs, decisions, processing, pass, life, cfg, ev>>

\* -------------------------------------------------------------------- queue
\* A variant of Get: the worker takes any dirty key, held or not.
Get_AnyDirty(w) ==
  /\ pass[w].pc = "idle"
  /\ \E k \in dirty :
       /\ processing' = processing \cup {k}
       /\ dirty' = dirty \ {k}
       /\ pass' = [pass EXCEPT ![w] = [pc |-> "sync", key |-> k]]
  /\ last' = NoLast
  /\ UNCHANGED <<rs, decisions, works, life, cfg, ev>>

\* A worker takes a key none of the workers holds.
Get(w) ==
  /\ pass[w].pc = "idle"
  /\ \E k \in dirty \ processing :
       /\ processing' = processing \cup {k}
       /\ dirty' = dirty \ {k}
       /\ pass' = [pass EXCEPT ![w] = [pc |-> "sync", key |-> k]]
  /\ last' = NoLast
  /\ UNCHANGED <<rs, decisions, works, life, cfg, ev>>

\* The worker gives its key back.
Done(w) ==
  /\ pass[w].pc = "done"
  /\ processing' = processing \ {pass[w].key}
  /\ pass' = [pass EXCEPT ![w] = Idle]
  /\ last' = NoLast
  /\ UNCHANGED <<rs, decisions, works, dirty, life, cfg, ev>>

\* ------------------------------------------------------------------- stages
\* The outcomes of the external calls of one sync call: the targets whose
\* delete fails in Finalize, the finalizer update, the resolution of the
\* placement, the targets whose apply fails in Distribution, the status patch.
Choices ==
  [finFailed : SUBSET Targets, guardOk : BOOLEAN, resolved : BOOLEAN,
   depFailed : SUBSET Targets, patchOk : BOOLEAN]

Return(st, state, err) == [st |-> st, state |-> state, err |-> err]

\* Finalize: a ReplicaSet that is not deleting passes through.  For a deleting
\* one every correlated ManifestWork gets a delete (each may fail; an accepted
\* delete leaves the object terminating until its cluster lets go of it); the
\* finalizer is removed when the listing is then empty.  Always stop.
finalizeReconcile(st, ch) ==
  IF ~st.cur.deleting
  THEN Return(st, reconcileContinue, NoErr)
  ELSE LET id == st.id
           listed == ListWorks(id, st.works)
           failed == ch.finFailed \cap {mw.target : mw \in listed}
           deleted == {mw \in listed : mw.target \notin failed}
           works2 == (st.works \ deleted) \cup
                     {[mw EXCEPT !.terminating = TRUE] : mw \in deleted}
           remove == ListWorks(id, works2) = {}
           commit == remove /\ st.rs[id].exists /\ st.rs[id].deleting /\ st.rs[id].guard
           fin == [ran |-> TRUE, listed |-> {mw.target : mw \in listed},
                   failed |-> failed, removed |-> remove]
       IN  Return([st EXCEPT
                     !.cur = IF remove THEN [st.cur EXCEPT !.guard = FALSE] ELSE st.cur,
                     !.works = works2,
                     !.rs = IF commit THEN [st.rs EXCEPT ![id].guard = FALSE] ELSE st.rs,
                     !.updates = IF remove /\ st.cur.guard THEN st.updates + 1 ELSE st.updates,
                     !.dirty = Enqueue(st.dirty,
                                 WorkKeys({mw \in deleted : ~mw.terminating})
                                 \cup (IF commit THEN {ownKey(id)} ELSE {})),
                     !.fin = fin],
                  reconcileStop,
                  IF failed # {} THEN "finalize" ELSE NoErr)

\* Guard-Install: nothing for a deleting ReplicaSet or one that has the
\* finalizer; otherwise add it and persist it.  A failed persist is reported.
\* Always continue.
addFinalizerReconcile(st, ch) ==
  IF st.cur.deleting \/ st.cur.guard
  THEN Return(st, reconcileContinue, NoErr)
  ELSE LET id == st.id
           commit == ch.guardOk /\ st.rs[id].exists /\ ~st.rs[id].deleting
           event == commit /\ ~st.rs[id].guard
       IN  Return([st EXCEPT
                     !.cur = [st.cur EXCEPT !.guard = TRUE],
                     !.rs = IF commit THEN [st.rs EXCEPT ![id].guard = TRUE] ELSE st.rs,
                     !.updates = st.updates + 1,
                     !.dirty = Enqueue(st.dirty, IF event THEN {ownKey(id)} ELSE {})],
                  reconcileContinue,
                  IF commit THEN NoErr ELSE "addFinalizer")

\* Distribution: resolve the targets, then per target create what is missing,
\* update what differs from the template, delete what is no longer selected.
\* A failed resolution skips the fan-out; a failed call on one target leaves
\* the others alone; a create of an identity that is taken fails.  Always
\* continue.
deployReconcile(st, ch) ==
  LET id == st.id
      cur == st.cur
      desired == st.decisions[id]
      observed == ListWorks(id, st.works)
      obsT == {mw.target : mw \in observed}
      toCreate == desired \ obsT
      toUpdate == {mw.target : mw \in {x \in observed :
                      x.target \in desired /\ x.payload # cur.payload}}
      toDelete == obsT \ desired
      ops == {[op |-> "create", target |-> t] : t \in toCreate}
             \cup {[op |-> "update", target |-> t] : t \in toUpdate}
             \cup {[op |-> "delete", target |-> t] : t \in toDelete}
      taken == {t \in toCreate : \E mw \in st.works :
                   Identity(mw) = Identity(NewWork(id, t, cur.payload))}
      failed == IF ch.resolved
                THEN (ch.depFailed \cap (toCreate \cup toUpdate \cup toDelete))
                     \cup taken
                ELSE {}
      apply(mw) ==
        IF mw.target \in failed THEN mw
        ELSE IF mw.target \in toUpdate THEN [mw EXCEPT !.payload = cur.payload]
        ELSE IF mw.target \in toDelete THEN [mw EXCEPT !.terminating = TRUE]
        ELSE mw
      created == {NewWork(id, t, cur.payload) : t \in toCreate \ failed}
      works2 == IF ch.resolved
                THEN (st.works \ observed) \cup {apply(mw) : mw \in observed} \cup created
                ELSE st.works
      dist == [ran |-> TRUE, resolved |-> ch.resolved, desired |-> desired,
               observed |-> observed, owned |-> OwnedBy(ownKey(id), st.works),
               ops |-> IF ch.resolved THEN ops ELSE {},
               failed |-> failed, payload |-> cur.payload]
  IN  Return([st EXCEPT !.works = works2,
                        !.dirty = Enqueue(st.dirty, WorkKeys(works2 \ st.works)),
                        !.dist = dist],
             reconcileContinue,
             IF ~ch.resolved \/ failed # {} THEN "deploy" ELSE NoErr)

\* The status summary: the correlated ManifestWorks of the selected targets.
Summary(id, lister, selected) ==
  Cardinality({mw \in ListWorks(id, lister) : mw.target \in selected})

\* Status: recompute the summary from the ManifestWorks observed now and the
\* selection resolved now.  Always continue.
statusReconcile(st, ch) ==
  Return([st EXCEPT !.cur = [st.cur EXCEPT !.status =
                               Summary(st.id, st.works, st.decisions[st.id])],
                    !.sel = st.decisions[st.id]],
         reconcileContinue, NoErr)

\* reconciler.reconcile for the stage of that name.
reconcile(stage, st, ch) ==
  CASE stage = "finalize" -> finalizeReconcile(st, ch)
    [] stage = "addFinalizer" -> addFinalizerReconcile(st, ch)
    [] stage = "deploy" -> deployReconcile(st, ch)
    [] stage = "status" -> statusReconcile(st, ch)

\* --------------------------------------------------------------------- sync
\* Variants of the loop's exit test: leave on an error too; never leave.
LoopExit_OnError(state, err) == state = reconcileStop \/ err # NoErr
LoopExit_Never(state, err) == FALSE

\* The loop leaves on the stop signal alone.
LoopExit(state, err) == state = reconcileStop

\* The loop's bookkeeping for the stage at index i that returned r: the
\* error is appended, the resource the stage returned is carried on.
Collect(i, r) ==
  [r.st EXCEPT
     !.errs = IF r.err # NoErr THEN Append(r.st.errs, r.err) ELSE r.st.errs,
     !.ran = Append(r.st.ran, [stage |-> reconcilers[i], state |-> r.state,
                               err |-> r.err # NoErr])]

\* The loop over the reconcilers, from the stage at index i on.  (The stage's
\* argument s and its return r each range over a one-element set, so that
\* each is computed once.)
RECURSIVE Loop(_, _, _)
Loop(i, st, ch) ==
  IF i > Len(reconcilers)
  THEN st
  ELSE CHOOSE out \in {IF LoopExit(r.state, r.err)
                       THEN Collect(i, r)
                       ELSE Loop(i + 1, Collect(i, r), ch) :
                         r \in {reconcile(reconcilers[i], s, ch) : s \in {st}}} : TRUE

\* A variant of the two statuses sync hands to PatchStatus: the old one is
\* an empty status.
PatchStatusArgs_OldEmpty(st) == [new |-> st.cur.status, old |-> 0]

\* The two statuses sync hands to PatchStatus: the one of the resource the
\* loop ended with, and the one of the resource it loaded.
PatchStatusArgs(st) == [new |-> st.cur.status, old |-> st.old.status]

\* PatchStatus: nothing to write when the status equals the loaded one; a
\* write that fails, or finds the ReplicaSet gone, is an error.
PatchStatus(st, ch) ==
  IF PatchStatusArgs(st).new = PatchStatusArgs(st).old
  THEN [st EXCEPT !.patches = st.patches + 1,
                  !.compared = PatchStatusArgs(st)]
  ELSE LET id == st.id
           commit == ch.patchOk /\ st.rs[id].exists
       IN  [st EXCEPT
              !.patches = st.patches + 1,
              !.compared = PatchStatusArgs(st),
              !.wrote = commit,
              !.rs = IF commit THEN [st.rs EXCEPT ![id].status = st.cur.status]
                     ELSE st.rs,
              !.dirty = Enqueue(st.dirty,
                          IF commit /\ st.rs[id].status # st.cur.status
                          THEN {ownKey(id)} ELSE {}),
              !.errs = IF commit THEN st.errs ELSE Append(st.errs, "patch")]

\* A variant of NewAggregate: the first error alone.
NewAggregate_First(errs) == IF errs = <<>> THEN <<>> ELSE <<Head(errs)>>

\* utilerrors.NewAggregate: nil (<<>>) for no error, else the errors in order.
NewAggregate(errs) == errs

\* A variant of DeepCopy: the copy has lost the finalizers.
DeepCopy_NoFinalizers(obj) == [obj EXCEPT !.guard = FALSE]

\* DeepCopy: the stages work on a copy that equals the loaded ReplicaSet.
DeepCopy(obj) == obj

\* A variant of SyncNotFound: not found is returned as an error.
SyncNotFound_Error(key) == <<"notfound">>

\* What sync returns for a key that does not split or whose ReplicaSet the
\* lister does not have: nil.
SyncNotFound(key) == <<>>

\* The state of a sync call that has loaded its ReplicaSet: the loaded
\* object, the copy the stages work on, no stage run and no error yet.
Loaded(id) ==
  [id |-> id, old |-> rs[id], cur |-> DeepCopy(rs[id]), errs |-> <<>>,
   ran |-> <<>>, fin |-> NoFin, dist |-> NoDist, sel |-> {},
   updates |-> 0, patches |-> 0, compared |-> NoCompared, wrote |-> FALSE,
   rs |-> rs, works |-> works, dirty |-> dirty, decisions |-> decisions]

\* A variant of SyncFound: the status is not patched when a stage stopped
\* the loop.
SyncFound_PatchUnlessStopped(id, ch) ==
  CHOOSE out \in {IF st1.ran[Len(st1.ran)].state = reconcileStop
                  THEN st1
                  ELSE PatchStatus(st1, ch) :
                    st1 \in {Loop(1, Loaded(id), ch)}} : TRUE

\* What sync returns and leaves behind for a key whose ReplicaSet it found:
\* the loop, then the status patch.
SyncFound(id, ch) ==
  CHOOSE out \in {PatchStatus(st1, ch) : st1 \in {Loop(1, Loaded(id), ch)}} : TRUE

\* The outcomes that differ for the calls one sync call can make: a deleting
\* ReplicaSet only issues deletes, a live one never does, a ReplicaSet with
\* the finalizer does not update it, a failed resolution applies nothing.
ChoicesFor(key) ==
  LET split == SplitMetaNamespaceKey(key)
      id == Id(split.namespace, split.name)
      none == [finFailed |-> {}, guardOk |-> TRUE, resolved |-> TRUE,
               depFailed |-> {}, patchOk |-> TRUE]
  IN  IF split.err \/ id \notin RSIds \/ ~rs[id].exists
      THEN {none}
      ELSE IF rs[id].deleting
           THEN {[none EXCEPT !.finFailed = F] :
                   F \in SUBSET {mw.target : mw \in ListWorks(id, works)}}
           ELSE {ch \in [finFailed : {{}},
                          guardOk : IF rs[id].guard THEN {TRUE} ELSE BOOLEAN,
                          resolved : BOOLEAN, depFailed : SUBSET Targets,
                          patchOk : BOOLEAN] :
                   ~ch.resolved => ch.depFailed = {}}

\* History of a ReplicaSet as its controller has seen it: "guarded" once
\* Guard-Install ran on it without error, "confirmed" once Finalize ran when
\* no ManifestWork of it was left.
LifeAfter(now, st) ==
  IF st.fin.ran /\ OwnedBy(ownKey(st.id), st.works) = {}
  THEN "confirmed"
  ELSE IF \E i \in 1..Len(st.ran) :
            st.ran[i].stage = "addFinalizer" /\ ~st.ran[i].err /\ ~st.old.deleting
       THEN "guarded"
       ELSE now

\* A worker runs sync on its key; a call that returns an error has its key
\* queued again.
Sync(w) ==
  /\ pass[w].pc = "sync"
  /\ pass' = [pass EXCEPT ![w].pc = "done"]
  /\ UNCHANGED <<decisions, processing, cfg, ev>>
  /\ \E ch \in ChoicesFor(pass[w].key) :
       LET key == pass[w].key
           split == SplitMetaNamespaceKey(key)
           id == Id(split.namespace, split.name)
       IN  IF split.err \/ id \notin RSIds \/ ~rs[id].exists
           THEN /\ last' = [NoLast EXCEPT !.returned = TRUE, !.key = key,
                                          !.result = SyncNotFound(key)]
                /\ dirty' = IF SyncNotFound(key) # <<>> THEN Enqueue(dirty, {key})
                            ELSE dirty
                /\ UNCHANGED <<rs, works, life>>
           ELSE \E st \in {SyncFound(id, ch)} :
                LET result == NewAggregate(st.errs)
                IN  /\ rs' = st.rs
                    /\ works' = st.works
                    /\ life' = [life EXCEPT ![id] = LifeAfter(life[id], st)]
                    /\ dirty' = IF result # <<>> THEN Enqueue(st.dirty, {key})
                                ELSE st.dirty
                    /\ last' = [returned |-> TRUE, key |-> key, found |-> TRUE,
                                id |-> id, old |-> st.old, cur |-> st.cur,
                                ran |-> st.ran, fin |-> st.fin, dist |-> st.dist,
                                sel |-> st.sel, updates |-> st.updates,
                                patches |-> st.patches,
                                compared |-> st.compared,
                                wrote |-> st.wrote, result |-> result]

\* --------------------------------------------------------------------- Next
Next ==
  \/ \E id \in RSIds : UserCreate(id)
  \/ \E id \in RSIds : UserUpdate(id)
  \/ \E id \in RSIds : UserDelete(id)
  \/ \E id \in RSIds : StorageRemove(id)
  \/ \E id \in RSIds : DecisionChange(id)
  \/ \E mw \in works : WorkFinalized(mw)
  \/ \E w \in Workers : Get(w)
  \/ \E w \in Workers : Sync(w)
  \/ \E w \in Workers : Done(w)

Spec == Init /\ [][Next]_vars

\* ----------------------------------------------------------------- fairness
\* A sync call in which every delete that Finalize issued was accepted.
SyncDeletes(w) == Sync(w) /\ last'.fin.failed = {}

\* The workers keep taking keys, running sync and giving the keys back, a
\* delete is not refused forever, a terminating ManifestWork goes away and
\* the storage layer removes a deleting ReplicaSet without finalizer.
Fairness ==
  /\ WF_vars(\E w \in Workers : Get(w))
  /\ SF_vars(\E w \in Workers : SyncDeletes(w))
  /\ WF_vars(\E w \in Workers : Done(w))
  /\ WF_vars(\E mw \in works : WorkFinalized(mw))
  /\ WF_vars(\E id \in RSIds : StorageRemove(id))

\* A ReplicaSet placed on every cluster, with users who create and delete it.
InitFair ==
  /\ rs = [id \in RSIds |-> NoRS]
  /\ decisions = [id \in RSIds |-> Targets]
  /\ works = {}
  /\ dirty = {}
  /\ processing = {}
  /\ pass = [w \in Workers |-> Idle]
  /\ life = [id \in RSIds |-> "new"]
  /\ cfg = [ids |-> {Id(<<"n">>, <<"a">>)}, targets |-> Targets]
  /\ last = NoLast
  /\ ev = NoEvent

NextFair ==
  \/ \E id \in RSIds : UserCreate(id)
  \/ \E id \in RSIds : UserDelete(id)
  \/ \E id \in RSIds : StorageRemove(id)
  \/ \E mw \in works : WorkFinalized(mw)
  \/ \E w \in Workers : Get(w)
  \/ \E w \in Workers : Sync(w)
  \/ \E w \in Workers : Done(w)

SpecFair == InitFair /\ [][NextFair]_vars /\ Fairness

\* ------------------------------------------- the ManifestWork event handler
\* The label values an event's object may carry.
Labels == UNION {[1..n -> LabelChars] : n \in 0..MaxLabelLen}

InitKey ==
  /\ InitCtl
  /\ ev \in {[pc |-> "event", labels |-> l, queued |-> FALSE, key |-> <<>>] :
              l \in {NoLabel} \cup {LabelOf(v) : v \in Labels}}

\* The informer delivers the event: objects the filter passes get their queue
\* key computed and added to the queue.
HandleEvent ==
  /\ ev.pc = "event"
  /\ LET queued == filterByLabel(ev.labels)
         key == IF queued THEN ownerKeyFromChild(ev.labels) ELSE <<>>
     IN  /\ ev' = [ev EXCEPT !.pc = "handled", !.queued = queued, !.key = key]
         /\ dirty' = Enqueue(dirty, {key})
  /\ UNCHANGED <<rs, decisions, works, processing, pass, life, cfg, last>>

NextKey == HandleEvent

SpecKey == InitKey /\ [][NextKey]_vars


\* ------------------------------------ events of any ReplicaSet's ManifestWork
\* The names a ReplicaSet may have: DNS subdomains, that is non-empty labels
\* joined by dots.  Namespaces are single labels.
ValidName(s) ==
  /\ Len(s) >= 1
  /\ s[1] # "." /\ s[Len(s)] # "."
  /\ \A i \in 1..(Len(s) - 1) : ~(s[i] = "." /\ s[i + 1] = ".")

Names == {s \in UNION {[1..n -> LabelChars] : n \in 1..MaxNameLen} : ValidName(s)}

Namespaces == {<<"n">>, <<"m">>}

\* An event of a ManifestWork that carries the label of ReplicaSet owner.
InitRound ==
  /\ InitCtl
  /\ ev \in {[pc |-> "event", owner |-> Id(ns, name),
              labels |-> LabelOf(manifestWorkReplicaSetKey(Id(ns, name))),
              queued |-> FALSE, key |-> <<>>] :
              ns \in Namespaces, name \in Names}

NextRound == HandleEvent

SpecRound == InitRound /\ [][NextRound]_vars

\* ---------------------------------------------------------- two ReplicaSets
\* Two ReplicaSets of one name in two namespaces, both placed on cluster 1,
\* with users who create and delete them.
InitTwo ==
  /\ rs = [id \in RSIds |-> NoRS]
  /\ decisions = [id \in RSIds |-> {1}]
  /\ works = {}
  /\ dirty = {}
  /\ processing = {}
  /\ pass = [w \in Workers |-> Idle]
  /\ life = [id \in RSIds |-> "new"]
  /\ cfg = [ids |-> RSIds, targets |-> {1}]
  /\ last = NoLast
  /\ ev = NoEvent

NextTwo ==
  \/ \E id \in RSIds : UserCreate(id)
  \/ \E id \in RSIds : UserDelete(id)
  \/ \E id \in RSIds : StorageRemove(id)
  \/ \E mw \in works : WorkFinalized(mw)
  \/ \E w \in Workers : Get(w)
  \/ \E w \in Workers : Sync(w)
  \/ \E w \in Workers : Done(w)

SpecTwo == InitTwo /\ [][NextTwo]_vars

\* ------------------------------------------------------------------- claims
Found == last.returned /\ last.found

\* C1: in a sync call that loaded its ReplicaSet the stages run in the order
\* Finalize, Guard-Install, Distribution, Status, the first one always, and
\* stage k+1 runs if and only if every stage 1..k returned continue, whatever
\* errors those stages reported.
C1_StageOrder ==
  Found =>
    /\ Len(last.ran) \in 1..4
    /\ \A i \in 1..Len(last.ran) :
         last.ran[i].stage = <<"finalize", "addFinalizer", "deploy", "status">>[i]
    /\ \A k \in 1..3 :
         (k + 1 <= Len(last.ran)) <=>
           (k <= Len(last.ran)
            /\ \A j \in 1..k : last.ran[j].state = reconcileContinue)

\* C1 witness: all four stages ran although two of them reported an error.
C1_Witness ==
  /\ Found
  /\ Len(last.ran) = 4
  /\ last.ran[2].err
  /\ last.ran[3].err

\* C2: a sync call on a ReplicaSet whose deletion timestamp is set runs
\* Finalize alone, which signals stop, and no step taken while a ReplicaSet
\* is deleting creates a ManifestWork correlated to it or changes the payload
\* of one.
C2_DeletingIsNotDistributed ==
  /\ [](Found /\ last.old.deleting =>
          /\ Len(last.ran) = 1
          /\ last.ran[1].stage = "finalize"
          /\ last.ran[1].state = reconcileStop
          /\ ~last.dist.ran)
  /\ [][\A id \in RSIds :
          rs[id].exists /\ rs[id].deleting =>
            \A mw \in OwnedBy(ownKey(id), works') :
              \E was \in works :
                /\ was.target = mw.target /\ was.name = mw.name
                /\ was.payload = mw.payload]_vars

\* C2 witness: a call on a deleting ReplicaSet returned while a selected
\* target has no ManifestWork of it.
C2_Witness ==
  /\ Found
  /\ last.old.deleting
  /\ \E t \in decisions[last.id] :
       \A mw \in OwnedBy(last.key, works) : mw.target # t

\* C3: a deleting ReplicaSet that still has correlated ManifestWorks carries
\* its finalizer; a call whose Finalize stage still had ManifestWorks to
\* delete stops and leaves the finalizer, and a call in which the finalizer
\* went away found none.
C3_GuardWhileChildrenRemain ==
  /\ \A id \in RSIds :
       rs[id].exists /\ rs[id].deleting /\ OwnedBy(ownKey(id), works) # {}
         => rs[id].guard
  /\ Found /\ last.old.deleting /\ OwnedBy(last.key, works) # {} =>
       /\ last.ran[Len(last.ran)].state = reconcileStop
       /\ ~last.fin.removed
       /\ rs[last.id].guard
  /\ Found /\ last.old.guard /\ rs[last.id].exists /\ ~rs[last.id].guard =>
       /\ last.fin.ran
       /\ last.fin.listed = {}
       /\ OwnedBy(last.key, works) = {}

\* C3 witness: Finalize issued deletes, one of which failed, and the
\* finalizer is still there.
C3_Witness ==
  /\ Found
  /\ last.fin.ran
  /\ last.fin.failed # {}
  /\ last.fin.listed # last.fin.failed
  /\ rs[last.id].deleting
  /\ rs[last.id].guard

\* C4: a sync call on a deleting ReplicaSet with no correlated ManifestWork
\* left removes the finalizer in Finalize, which signals stop.
C4_FinalizeRemovesGuard ==
  Found /\ last.old.deleting /\ OwnedBy(last.key, works) = {} =>
    /\ last.fin.ran
    /\ last.fin.removed
    /\ ~last.cur.guard
    /\ rs[last.id].exists => ~rs[last.id].guard
    /\ Len(last.ran) = 1
    /\ last.ran[1].stage = "finalize"
    /\ last.ran[1].state = reconcileStop

\* C4 witness: the call found the finalizer and left the ReplicaSet without.
C4_Witness ==
  /\ Found
  /\ last.old.deleting
  /\ last.old.guard
  /\ last.fin.removed
  /\ rs[last.id].exists
  /\ ~rs[last.id].guard


\* The ReplicaSet a ManifestWork is correlated to, if any.
OwnersOf(mw) == {id \in RSIds : mw \in OwnedBy(ownKey(id), {mw})}

\* C5: no ManifestWork exists whose owner ReplicaSet is absent, unless that
\* ReplicaSet went away through Finalize, which had seen none left.
C5_NoOrphan ==
  \A mw \in works : \A id \in OwnersOf(mw) :
    rs[id].exists \/ life[id] = "confirmed"

\* C6: a live ReplicaSet that owns a ManifestWork has its finalizer in
\* storage.
C6_GuardBeforeChildren ==
  \A id \in RSIds :
    rs[id].exists /\ ~rs[id].deleting /\ OwnedBy(ownKey(id), works) # {}
      => rs[id].guard

\* C7 as stated: the finalizer is on a ReplicaSet if and only if the
\* controller has not confirmed that no ManifestWork of it is left.
C7_GuardIffUnconfirmed ==
  \A id \in RSIds :
    rs[id].exists => (rs[id].guard <=> life[id] # "confirmed")

\* C7 as amended: the finalizer is on a ReplicaSet if and only if Guard-Install
\* has succeeded on it and the controller has not, since, confirmed in its
\* deletion that no ManifestWork of it is left; a ReplicaSet no sync call has
\* guarded yet has none.
C7_GuardIffGuardedUnconfirmed ==
  \A id \in RSIds :
    rs[id].exists => (rs[id].guard <=> life[id] = "guarded")

\* C7 witness: a ReplicaSet that had the finalizer waits without it for its
\* removal.
C7_Witness ==
  \E id \in RSIds :
    /\ rs[id].exists /\ rs[id].deleting /\ ~rs[id].guard
    /\ life[id] = "confirmed"
    /\ Found /\ last.old.guard

DotCount(v) == Cardinality({i \in 1..Len(v) : v[i] = "."})
Joined(v) ==
  LET i == CHOOSE i \in 1..Len(v) : v[i] = "."
  IN  SubSeq(v, 1, i - 1) \o <<"/">> \o SubSeq(v, i + 1, Len(v))
NonEmptySegments(v) == v[1] # "." /\ v[Len(v)] # "."

\* C8 as stated: the handler yields no key unless the label is present and
\* made of exactly two non-empty segments around one dot, and then yields
\* segment0/segment1.
C8_TwoNonEmptySegments ==
  ev.pc = "handled" =>
    ev.key = IF ev.labels.ok /\ DotCount(ev.labels.value) = 1
                /\ NonEmptySegments(ev.labels.value)
             THEN Joined(ev.labels.value)
             ELSE <<>>

\* C8 as amended: the handler yields no key unless the label is present and
\* holds exactly one dot, and then yields segment0/segment1, either segment
\* possibly empty ("ns." gives "ns/", ".name" gives "/name", "." gives "/").
C8_TwoSegments ==
  ev.pc = "handled" =>
    ev.key = IF ev.labels.ok /\ DotCount(ev.labels.value) = 1
             THEN Joined(ev.labels.value)
             ELSE <<>>

\* C8 witness: the label "a." was handled and gave the key "a/".
C8_Witness ==
  /\ ev.pc = "handled"
  /\ ev.labels = LabelOf(<<"a", ".">>)
  /\ ev.key = <<"a", "/">>

TargetsOf(mws) == {mw.target : mw \in mws}
Distributed == Found /\ last.dist.ran /\ last.dist.resolved

\* C9: Distribution on a ReplicaSet without ManifestWorks issues one create
\* per selected target and nothing else, each ManifestWork created carries
\* the label namespace.name that leads back to the owner's key, and there is
\* one per target whose create succeeded; Distribution on a ReplicaSet whose
\* ManifestWorks are those of the selected targets with the payload of the
\* template issues no create, update or delete and leaves them as they were.
C9_DistributionRoundTrip ==
  Distributed =>
    /\ last.dist.owned = {} =>
         /\ last.dist.ops = {[op |-> "create", target |-> t] : t \in last.dist.desired}
         /\ \A t \in last.dist.desired \ last.dist.failed :
              \E mw \in works :
                /\ mw.target = t
                /\ mw.labels = LabelOf(last.id.namespace \o <<".">> \o last.id.name)
                /\ ownerKeyFromChild(mw.labels) = last.key
         /\ Cardinality(OwnedBy(last.key, works))
              = Cardinality(last.dist.desired \ last.dist.failed)
    /\ (/\ TargetsOf(last.dist.owned) = last.dist.desired
        /\ \A mw \in last.dist.owned : mw.payload = last.dist.payload) =>
         /\ last.dist.ops = {}
         /\ OwnedBy(last.key, works) = last.dist.owned

\* C9 witness: a second run over every target found them all and did nothing.
C9_Witness ==
  /\ Distributed
  /\ last.dist.desired = Targets
  /\ TargetsOf(last.dist.owned) = Targets
  /\ \A mw \in last.dist.owned : mw.payload = last.dist.payload /\ ~mw.terminating
  /\ last.dist.ops = {}

Shrunk ==
  /\ Distributed
  /\ last.dist.desired \subseteq TargetsOf(last.dist.owned)
  /\ last.dist.desired # TargetsOf(last.dist.owned)
  /\ \A mw \in last.dist.owned :
       mw.target \in last.dist.desired => mw.payload = last.dist.payload

\* C10: when targets were dropped from the selection, the next sync call
\* issues a delete for the ManifestWork of each dropped target and no other
\* call, the ManifestWorks of the targets still selected stay as they were,
\* those whose delete was accepted are on their way out, and the status total
\* is the number of targets still selected.
C10_ShrinkDeletesDropped ==
  Shrunk =>
    /\ last.dist.ops = {[op |-> "delete", target |-> t] :
                          t \in TargetsOf(last.dist.owned) \ last.dist.desired}
    /\ \A mw \in last.dist.owned :
         IF mw.target \in last.dist.desired \/ mw.target \in last.dist.failed
         THEN mw \in works
         ELSE [mw EXCEPT !.terminating = TRUE] \in works
    /\ Len(last.ran) = 4
    /\ last.cur.status = Cardinality(last.dist.desired)
    /\ last.wrote => rs[last.id].status = Cardinality(last.dist.desired)

\* C10 witness: one target of several was dropped, its ManifestWork is on its
\* way out and the status written counts the others.
C10_Witness ==
  /\ Shrunk
  /\ last.dist.desired # {}
  /\ last.dist.failed = {}
  /\ \A mw \in last.dist.owned : ~mw.terminating
  /\ last.wrote
  /\ rs[last.id].status = Cardinality(last.dist.desired)
  /\ rs[last.id].status < Cardinality(last.dist.owned)



\* The stages a sync call ran, by name.
RanStages == {last.ran[i].stage : i \in 1..Len(last.ran)}

C12_OnlyChangedStatusWritten ==
  Found =>
    /\ last.wrote => last.cur.status # last.old.status
    /\ last.cur.status = last.old.status => ~last.wrote
    /\ rs[last.id].exists =>
         /\ rs[last.id].payload = last.old.payload
         /\ rs[last.id].status =
              IF last.wrote THEN last.cur.status ELSE last.old.status

\* C12 witness: the Status stage computed the status the ReplicaSet already
\* had, which is not the empty one, and nothing was written.
C12_Witness ==
  /\ Found
  /\ "status" \in RanStages
  /\ last.old.status # 0
  /\ last.cur.status = last.old.status
  /\ ~last.wrote
  /\ rs[last.id].exists



\* The workers that hold a key: between taking it and giving it back.
Busy == {w \in Workers : pass[w].pc # "idle"}

\* C13: no two workers hold the same key at a time, the keys held are the
\* ones the queue has marked as being processed, and a key that became dirty
\* again while held stays in the queue once.
C13_OneWorkerPerKey ==
  /\ \A v, w \in Busy : v # w => pass[v].key # pass[w].key
  /\ processing = {pass[w].key : w \in Busy}

\* C13 witness: both workers run at once, on different keys, and one of the
\* keys has become dirty again while its call is running.
C13_Witness ==
  /\ \A w \in Workers : pass[w].pc = "sync"
  /\ \E v, w \in Workers : pass[v].key # pass[w].key
  /\ \E w \in Workers : pass[w].key \in dirty



\* The errors of the stages a sync call ran, in the order they ran.
StageErrs ==
  LET failed == SelectSeq(last.ran, LAMBDA r : r.err)
  IN  [i \in 1..Len(failed) |-> failed[i].stage]

\* The status patch of the sync call was attempted and failed.
PatchFailed == last.cur.status # last.old.status /\ ~last.wrote

\* C14: what sync returns for a ReplicaSet it found is the errors of the
\* stages that ran, in their order, then the error of the status patch; it is
\* nil exactly when there is none, and the error of a stage that stops the
\* loop is among them.
C14_AggregateOfAllErrors ==
  Found =>
    /\ last.result = StageErrs \o (IF PatchFailed THEN <<"patch">> ELSE <<>>)
    /\ last.result = <<>> <=>
         /\ \A i \in 1..Len(last.ran) : ~last.ran[i].err
         /\ ~PatchFailed
    /\ \A i \in 1..Len(last.ran) :
         last.ran[i].err /\ last.ran[i].state = reconcileStop =>
           \E j \in 1..Len(last.result) : last.result[j] = last.ran[i].stage

\* C14 witness: two stages and the status patch failed in one call.
C14_Witness ==
  /\ Found
  /\ last.result = <<"addFinalizer", "deploy", "patch">>



\* C15: a sync call whose key names no ReplicaSet returns nil, runs no stage
\* and patches nothing, and its step leaves the ReplicaSets, the ManifestWorks
\* and the queue as they were: the key is not queued again.
C15_NotFoundIsSilent ==
  /\ [](last.returned /\ ~last.found =>
          /\ last.result = <<>>
          /\ last.ran = <<>>
          /\ last.patches = 0
          /\ ~last.wrote)
  /\ [][last'.returned /\ ~last'.found =>
          /\ rs' = rs
          /\ works' = works
          /\ dirty' = dirty]_vars

\* C15 witness: a sync call returned for the key of a ReplicaSet that is gone
\* while a ManifestWork with its label is still there.
C15_Witness ==
  /\ last.returned
  /\ ~last.found
  /\ last.key = ownKey(Id(<<"n">>, <<"a">>))
  /\ OwnedBy(last.key, works) # {}



\* Guard-Install ran in the sync call and reported no error.
GuardInstalled ==
  \E i \in 1..Len(last.ran) :
    last.ran[i].stage = "addFinalizer" /\ ~last.ran[i].err

\* C16: for a ReplicaSet that is not deleting, a Guard-Install that ran
\* without error leaves the finalizer on it, in the call and in storage for as
\* long as it is not deleting; run on a ReplicaSet that has the finalizer, the
\* stage issues no update and leaves the finalizer as it is.
C16_GuardInstallIdempotent ==
  /\ Found /\ ~last.old.deleting /\ GuardInstalled =>
       /\ last.cur.guard
       /\ rs[last.id].guard
  /\ Found /\ ~last.old.deleting /\ last.old.guard =>
       /\ GuardInstalled
       /\ last.updates = 0
       /\ last.cur.guard
       /\ rs[last.id].guard
  /\ \A id \in RSIds :
       life[id] = "guarded" /\ rs[id].exists /\ ~rs[id].deleting => rs[id].guard

\* C16 witness: Guard-Install ran on a live ReplicaSet that had the finalizer
\* from an earlier call.
C16_Witness ==
  /\ Found
  /\ ~last.old.deleting
  /\ last.old.guard
  /\ GuardInstalled
  /\ life[last.id] = "guarded"
  /\ last.updates = 0



\* C17: a sync call on a deleting ReplicaSet that lists ManifestWorks issues
\* a delete for each, stops after Finalize and keeps the finalizer; each
\* ManifestWork that goes away queues the ReplicaSet's key, and when the
\* workers keep running and deletes are not refused forever a deleting
\* ReplicaSet is eventually gone.
C17_DeletionCompletes ==
  /\ [](Found /\ last.old.deleting /\ last.fin.listed # {} =>
          /\ last.ran[Len(last.ran)].stage = "finalize"
          /\ last.ran[Len(last.ran)].state = reconcileStop
          /\ \A mw \in OwnedBy(last.key, works) :
               mw.target \in last.fin.listed \ last.fin.failed => mw.terminating
          /\ ~last.fin.removed
          /\ rs[last.id].guard)
  /\ [][\A mw \in works : mw.terminating /\ works' = works \ {mw} =>
          WorkKeys({mw}) \subseteq dirty']_vars
  /\ \A id \in RSIds : (rs[id].exists /\ rs[id].deleting) ~> ~rs[id].exists

\* C17 witness: the first call on a deleting ReplicaSet with a ManifestWork
\* on every cluster had all its deletes accepted and kept the finalizer.
C17_Witness ==
  /\ Found
  /\ last.old.deleting
  /\ last.fin.listed = Targets
  /\ last.fin.failed = {}
  /\ \A mw \in OwnedBy(last.key, works) : mw.terminating
  /\ rs[last.id].deleting
  /\ rs[last.id].guard



\* C18: the event of a ManifestWork that carries the label of a ReplicaSet,
\* whatever its namespace and name, queues the key of that ReplicaSet.
C18_CorrelationRoundTrip ==
  ev.pc = "handled" =>
    /\ ev.queued
    /\ ev.key = ownKey(ev.owner)
    /\ ownKey(ev.owner) \in dirty



\* C19: every sync call that loaded its ReplicaSet calls PatchStatus once,
\* after the loop, whether a stage stopped the loop or not and whether stages
\* failed or not, also when Finalize has just removed the finalizer; it
\* hands it the status of the resource the last stage returned and the status
\* it loaded.
C19_PatchOnceAfterLoop ==
  Found =>
    /\ last.patches = 1
    /\ Len(last.ran) >= 1
    /\ last.compared = [new |-> last.cur.status, old |-> last.old.status]
    /\ last.wrote => rs[last.id].status = last.cur.status

\* C19 witness: Finalize removed the finalizer and stopped the loop, and
\* PatchStatus was called.
C19_Witness ==
  /\ Found
  /\ last.old.guard
  /\ last.fin.removed
  /\ last.ran[Len(last.ran)].state = reconcileStop
  /\ ~rs[last.id].guard
  /\ last.patches = 1



\* C20: two ReplicaSets that select a cluster get ManifestWorks of different
\* identities there: the ManifestWork that Distribution computes for the
\* ReplicaSet of a sync call is never one that carries the label of another
\* ReplicaSet.
C20_ExclusiveOwnership ==
  /\ \A id1, id2 \in RSIds :
       id1 # id2 /\ rs[id1].exists /\ rs[id2].exists =>
         \A t \in decisions[id1] \cap decisions[id2] :
           Identity(NewWork(id1, t, rs[id1].payload)) #
             Identity(NewWork(id2, t, rs[id2].payload))
  /\ Found /\ last.dist.ran /\ last.dist.resolved =>
       \A t \in last.dist.desired : \A mw \in works :
         Identity(mw) = Identity(NewWork(last.id, t, last.dist.payload)) =>
           mw \in OwnedBy(last.key, works)

====
